---------------------------- MODULE Spec2Model ----------------------------
(***************************************************************************)
(* A model of the Gemini proxy: the two request handlers of the            *)
(* repository (the open one, api/generate.js, and the one that verifies a  *)
(* Firebase ID token first), run as one serverless process that handles    *)
(* one request after the other.  An action is one synchronous segment of   *)
(* the async handler: the code between two awaits.                         *)
(***************************************************************************)
EXTENDS Integers, Sequences, FiniteSets, TLC

VARIABLES
    variant,              \* which of the two handlers this process serves
    env,                  \* process.env
    SERVICE_ACCOUNT_KEY,  \* module constant of the authenticated handler
    GEMINI_API_KEY,       \* module constant of the authenticated handler
    adminApps,            \* admin.apps.length
    pc,                   \* where the process / the handler is suspended
    request,              \* the inbound request being handled
    decodedToken,         \* let decodedToken
    geminiPayload,        \* const geminiPayload
    apiUrl,               \* const apiUrl
    attempt,              \* the loop variable of the retry loop
    geminiResponse,       \* let geminiResponse
    sent,                 \* the responses emitted for the current request
    verifyCalls,          \* the tokens handed to admin.auth().verifyIdToken
    verdicts,             \* what each settled verifyIdToken call produced
    fetchCalls,           \* the outbound calls made for the current request
    replies,              \* what each completed outbound call produced
    waits,                \* the backoff timers set for the current request
    lastBody,             \* the body text the upstream sent, once it was read
    peer                  \* a second activation of the handler, run at the same time

config == <<variant, env, SERVICE_ACCOUNT_KEY, GEMINI_API_KEY, adminApps>>
locals == <<request, decodedToken, geminiPayload, apiUrl, attempt, geminiResponse>>
record == <<sent, verifyCalls, verdicts, fetchCalls, replies, waits, lastBody>>
vars   == <<config, pc, locals, record, peer>>

---------------------------------------------------------------------------
(* JavaScript values.  A string is the sequence of its characters; a       *)
(* string literal of the source is kept as one piece (Lit).                *)

Undefined == [t |-> "undefined"]
JNull     == [t |-> "null"]
JBool(b)  == [t |-> "boolean", b |-> b]
JNum(n)   == [t |-> "number", n |-> n]
JStr(s)   == [t |-> "string", s |-> s]
JArr(a)   == [t |-> "array", a |-> a]
JObj(f)   == [t |-> "object", f |-> f]
Lit(s)    == JStr(<<s>>)
EmptyObject == JObj([k \in {} |-> Undefined])

\* !v is false
Truthy(v) ==
    CASE v.t = "undefined" -> FALSE
      [] v.t = "null"      -> FALSE
      [] v.t = "boolean"   -> v.b
      [] v.t = "number"    -> v.n # 0
      [] v.t = "string"    -> v.s # <<>>
      [] OTHER             -> TRUE

Nullish(v) == v.t \in {"undefined", "null"}

IsArray(v) == v.t = "array"

\* v.k for a v that is neither null nor undefined
Prop(v, k) ==
    IF v.t = "object" /\ k \in DOMAIN v.f THEN v.f[k] ELSE Undefined

\* the property key an index is converted to
IndexKey(i) == <<"0", "1", "2">>[i + 1]

\* v[i] for a v that is neither null nor undefined (i counts from 0)
Index(v, i) ==
    CASE v.t = "array" /\ i < Len(v.a)  -> v.a[i + 1]
      [] v.t = "string" /\ i < Len(v.s) -> JStr(<<v.s[i + 1]>>)
      [] v.t = "object"                 -> Prop(v, IndexKey(i))
      [] OTHER                          -> Undefined

\* v?.k and v?.[i]
OptProp(v, k)  == IF Nullish(v) THEN Undefined ELSE Prop(v, k)
OptIndex(v, i) == IF Nullish(v) THEN Undefined ELSE Index(v, i)

\* s.startsWith(p), on the characters
StartsWith(s, p) == Len(s) >= Len(p) /\ SubSeq(s, 1, Len(p)) = p

\* the places where sep occurs in s
Occurrences(s, sep) ==
    {i \in 1..(Len(s) - Len(sep) + 1) : SubSeq(s, i, i + Len(sep) - 1) = sep}

\* s.split(sep)[1] for an s that starts with sep: what lies between the
\* first occurrence of sep and the next one
SplitSecond(s, sep) ==
    LET from  == Len(sep) + 1
        later == {i \in Occurrences(s, sep) : i >= from}
        upto  == IF later = {} THEN Len(s)
                 ELSE (CHOOSE i \in later : \A j \in later : i <= j) - 1
    IN  SubSeq(s, from, upto)

---------------------------------------------------------------------------
(* JSON text.  A text is what it denotes (doc) and whether it is written   *)
(* with insignificant white space (ws); a text that is no JSON denotes     *)
(* Malformed.                                                              *)

Malformed == [t |-> "malformed"]
Text(ws, doc) == [ws |-> ws, doc |-> doc]

\* what JSON.stringify keeps of a value: no undefined property, null for an
\* undefined element
RECURSIVE Serializable(_)
Serializable(v) ==
    CASE v.t = "object" ->
            JObj([k \in {x \in DOMAIN v.f : v.f[x].t # "undefined"} |->
                    Serializable(v.f[k])])
      [] v.t = "array" ->
            JArr([i \in 1..Len(v.a) |->
                    IF v.a[i].t = "undefined" THEN JNull
                    ELSE Serializable(v.a[i])])
      [] OTHER -> v

JSONstringify(v) == Text(FALSE, Serializable(v))

\* JSON.parse / Response.json(): throws on a text that is no JSON
ParseThrows(text) == text.doc = Malformed
JSONparse(text)   == text.doc

---------------------------------------------------------------------------
(* Program constants.                                                      *)

API_URL_BASE == "https://generativelanguage.googleapis.com/v1beta/models"
GEMINI_MODEL == "gemini-2.5-flash-preview-09-2025"
maxRetries   == 3
delay        == 1000

Bearer == <<"B", "e", "a", "r", "e", "r", " ">>

RECURSIVE Pow2(_)
Pow2(n) == IF n = 0 THEN 1 ELSE 2 * Pow2(n - 1)


---------------------------------------------------------------------------
(* The inputs: what the environment, the callers, the identity service and *)
(* the upstream can hand to the program.                                   *)

MaxParts == 2

Variants == {"open", "authenticated"}

ApiKeys == {Undefined, JStr(<<>>), JStr(<<"k">>)}

\* FIREBASE_SERVICE_ACCOUNT_KEY: unset, empty, no JSON, JSON that is no
\* service account, a service account
ServiceAccountKeys ==
    {Undefined, JStr(<<>>), JStr(<<"x">>), JStr(<<"{", "}">>),
     JStr(<<"{", "sa", "}">>)}

Envs ==
    [GEMINI_API_KEY : ApiKeys, FIREBASE_SERVICE_ACCOUNT_KEY : ServiceAccountKeys]

\* the environments of a deployment of handler v: the open handler never
\* reads FIREBASE_SERVICE_ACCOUNT_KEY, which is then set or not
EnvsOf(v) ==
    IF v = "authenticated" THEN Envs
    ELSE {e \in Envs : e.FIREBASE_SERVICE_ACCOUNT_KEY \in
                          {Undefined, JStr(<<"{", "sa", "}">>)}}

Methods == {"GET", "POST", "DELETE"}

AuthorizationValues ==
    {JStr(<<>>),
     JStr(<<"B", "a", "s", "i", "c", " ", "t">>),
     JStr(<<"b", "e", "a", "r", "e", "r", " ", "t">>),
     JStr(Bearer),
     JStr(Bearer \o <<"t">>)}

Headers ==
    {EmptyObject} \cup {JObj([authorization |-> a]) : a \in AuthorizationValues}

\* the i-th content part of a request: each one differs from the others
PartAt(i) == JObj([text |-> JStr(<<"h", "i", IndexKey(i - 1)>>)])

PartsArrays == {JArr([i \in 1..n |-> PartAt(i)]) : n \in 0..MaxParts}

SystemInstructions == {JStr(<<"s">>)}

Bodies ==
    {Undefined, JNull, JStr(<<"{", "}">>), EmptyObject,
     JObj([systemInstruction |-> JStr(<<"s">>)]),
     JObj([parts |-> JNull]),
     JObj([parts |-> JStr(<<"h", "i">>)]),
     JObj([parts |-> JObj([text |-> JStr(<<"h", "i">>)])])}
    \cup {JObj([parts |-> p]) : p \in PartsArrays}
    \cup {JObj([parts |-> p, systemInstruction |-> s]) :
            p \in PartsArrays, s \in SystemInstructions}

Requests == [method : Methods, headers : Headers, body : Bodies]

\* what admin.auth().verifyIdToken(idToken) can do
VerifyOutcomes ==
    {[throws |-> TRUE, value |-> Undefined]}
    \cup {[throws |-> FALSE, value |-> v] :
            v \in {JNull, JObj([uid |-> JNull]), JObj([aud |-> JStr(<<"p">>)]),
                   JObj([uid |-> JStr(<<"u">>)])}}

Statuses == {200, 201, 400, 401, 503}

\* what fetch(apiUrl, ...) can do: reject, or resolve with a response
FetchOutcomes ==
    {[throws |-> TRUE, status |-> 0]}
    \cup {[throws |-> FALSE, status |-> s] : s \in Statuses}

Candidates(c)    == JObj([candidates |-> c])
WithContent(c)   == Candidates(JArr(<<JObj([content |-> c])>>))
WithParts(p)     == WithContent(JObj([parts |-> p]))
WithText(t)      == WithParts(JArr(<<JObj([text |-> t])>>))

\* the JSON documents an upstream body can hold
UpstreamDocs ==
    {JNull, JNum(5), EmptyObject,
     JObj([error |-> JObj([code |-> JNum(429)])]),
     Candidates(JNull), Candidates(JArr(<<>>)), Candidates(JArr(<<JNull>>)),
     Candidates(JStr(<<"h", "i">>)),
     Candidates(JArr(<<EmptyObject>>)),
     WithContent(EmptyObject), WithParts(JArr(<<>>)),
     WithParts(JArr(<<EmptyObject>>)),
     WithParts(JObj("0" :> JObj([text |-> JStr(<<"h", "i">>)]))),
     WithText(JNull), WithText(JStr(<<>>)), WithText(JNum(0)),
     WithText(JStr(<<"h", "i">>))}

\* the body texts of an upstream response
UpstreamBodies ==
    {Text(FALSE, Malformed)}
    \cup {Text(FALSE, d) : d \in UpstreamDocs}
    \cup {Text(TRUE, d) : d \in {JObj([error |-> JObj([code |-> JNum(429)])]),
                                 WithText(JStr(<<"h", "i">>))}}

NoResponse == Undefined

---------------------------------------------------------------------------
(* Process start.                                                          *)

\* an activation of the handler that has not started: its locals, and the
\* calls and responses recorded for it
Fresh ==
    [pc |-> "idle", request |-> Undefined, decodedToken |-> Undefined,
     geminiPayload |-> Undefined, apiUrl |-> <<>>, attempt |-> 0,
     geminiResponse |-> NoResponse, sent |-> <<>>, verifyCalls |-> <<>>,
     verdicts |-> <<>>, fetchCalls |-> <<>>, replies |-> <<>>, waits |-> <<>>,
     lastBody |-> Undefined]

Init ==
    /\ peer = Fresh
    /\ variant \in Variants
    /\ env \in EnvsOf(variant)
    /\ SERVICE_ACCOUNT_KEY = Undefined
    /\ GEMINI_API_KEY = Undefined
    /\ adminApps = 0
    /\ pc = "boot"
    /\ request = Undefined
    /\ decodedToken = Undefined
    /\ geminiPayload = Undefined
    /\ apiUrl = <<>>
    /\ attempt = 0
    /\ geminiResponse = NoResponse
    /\ sent = <<>>
    /\ verifyCalls = <<>>
    /\ verdicts = <<>>
    /\ fetchCalls = <<>>
    /\ replies = <<>>
    /\ waits = <<>>
    /\ lastBody = Undefined

\* JSON.parse(SERVICE_ACCOUNT_KEY)
ServiceAccountDoc(key) ==
    CASE key.s = <<"{", "}">>       -> EmptyObject
      [] key.s = <<"{", "sa", "}">> ->
            JObj([project_id |-> JStr(<<"p">>), private_key |-> JStr(<<"k">>),
                  client_email |-> JStr(<<"e">>)])
      [] OTHER                      -> Malformed

\* admin.credential.cert(serviceAccount) throws on an object that lacks a
\* field of a service account
CertThrows(serviceAccount) ==
    \E k \in {"project_id", "private_key", "client_email"} :
        ~Truthy(Prop(serviceAccount, k))

\* a slip: the app counts as initialized though the credential was refused
InitializeAdminUnchecked(apps, key) ==
    IF apps # 0 THEN apps
    ELSE IF ~Truthy(key) THEN apps
    ELSE IF ServiceAccountDoc(key) = Malformed THEN apps
    ELSE apps + 1

\* admin.apps.length after the module's initialization block
InitializeAdmin(apps, key) ==
    IF apps # 0 THEN apps
    ELSE IF ~Truthy(key) THEN apps
    ELSE IF ServiceAccountDoc(key) = Malformed THEN apps
    ELSE IF CertThrows(ServiceAccountDoc(key)) THEN apps
    ELSE apps + 1

\* the module body: the constants and, in the authenticated handler, the
\* initialization of the Firebase Admin SDK
LoadModule ==
    /\ pc = "boot"
    /\ pc' = "idle"
    /\ IF variant = "authenticated"
       THEN /\ SERVICE_ACCOUNT_KEY' = env.FIREBASE_SERVICE_ACCOUNT_KEY
            /\ GEMINI_API_KEY' = env.GEMINI_API_KEY
            /\ adminApps' = InitializeAdmin(adminApps, env.FIREBASE_SERVICE_ACCOUNT_KEY)
       ELSE UNCHANGED <<SERVICE_ACCOUNT_KEY, GEMINI_API_KEY, adminApps>>
    /\ UNCHANGED <<variant, env, locals, record, peer>>

---------------------------------------------------------------------------
(* The handlers.  A stage yields what the handler does next: it responds,  *)
(* it calls the identity service, it calls the upstream, or it goes on.    *)

Response(status, obj) == [status |-> status, body |-> JSONstringify(obj)]
ErrorBody(message)    == JObj([error |-> Lit(message)])

Respond(status, obj) == [kind |-> "respond", response |-> Response(status, obj)]
Pass                 == [kind |-> "pass"]

\* the template literal `${API_URL_BASE}/${GEMINI_MODEL}:generateContent?key=${apiKey}`
ApiUrl(apiKey) ==
    <<API_URL_BASE, "/", GEMINI_MODEL, ":generateContent?key=">> \o apiKey.s

\* a slip: the parts are sent in the reverse order
BuildGeminiPayloadReversed(parts, systemInstruction) ==
    JObj([contents |->
              JArr(<<JObj([role |-> Lit("user"),
                           parts |-> JArr([i \in 1..Len(parts.a) |->
                                             parts.a[Len(parts.a) + 1 - i]])])>>),
          systemInstruction |->
              JObj([parts |-> JArr(<<JObj([text |-> systemInstruction])>>)])])

\* const geminiPayload = {...}
BuildGeminiPayload(parts, systemInstruction) ==
    JObj([contents |-> JArr(<<JObj([role |-> Lit("user"), parts |-> parts])>>),
          systemInstruction |->
              JObj([parts |-> JArr(<<JObj([text |-> systemInstruction])>>)])])

\* the argument of fetch
FetchRequest(url, payload) ==
    [url |-> url, method |-> "POST", contentType |-> "application/json",
     body |-> JSONstringify(payload)]

\* a slip: the Array.isArray test left out
PartsFalsy(parts) == ~Truthy(parts)

\* !parts || !Array.isArray(parts)
PartsMissing(parts) == ~Truthy(parts) \/ ~IsArray(parts)

\* the payload stage, up to the first outbound call
ProcessPayload(req, apiKey) ==
    LET payload           == IF Truthy(req.body) THEN req.body ELSE EmptyObject
        parts             == Prop(payload, "parts")
        systemInstruction == Prop(payload, "systemInstruction")
    IN  IF PartsMissing(parts)
        THEN Respond(400, ErrorBody("Missing content parts."))
        ELSE [kind |-> "fetch",
              geminiPayload |-> BuildGeminiPayload(parts, systemInstruction),
              apiUrl |-> ApiUrl(apiKey)]

\* a slip: the key is looked at before the method
OpenGateKeyFirst(req) ==
    IF ~Truthy(env.GEMINI_API_KEY)
    THEN Respond(500, ErrorBody("Server key not configured."))
    ELSE IF req.method # "POST"
    THEN Respond(405, ErrorBody("Method Not Allowed"))
    ELSE ProcessPayload(req, env.GEMINI_API_KEY)

\* the open handler, up to its first await
OpenGate(req) ==
    IF req.method # "POST"
    THEN Respond(405, ErrorBody("Method Not Allowed"))
    ELSE IF ~Truthy(env.GEMINI_API_KEY)
    THEN Respond(500, ErrorBody("Server key not configured."))
    ELSE ProcessPayload(req, env.GEMINI_API_KEY)

\* a slip: the startsWith test left out
AuthHeaderMissing(authHeader) == ~Truthy(authHeader)

\* !authHeader || !authHeader.startsWith('Bearer ')
AuthHeaderInvalid(authHeader) ==
    ~Truthy(authHeader) \/ ~StartsWith(authHeader.s, Bearer)

\* a slip: the header is looked at before the server's configuration
AuthGateHeaderFirst(req) ==
    LET authHeader == Prop(req.headers, "authorization")
    IN  IF req.method # "POST"
        THEN Respond(405, ErrorBody("Method Not Allowed"))
        ELSE IF AuthHeaderInvalid(authHeader)
        THEN Respond(401, ErrorBody("Authorization header missing or invalid."))
        ELSE IF ~Truthy(GEMINI_API_KEY)
        THEN Respond(500, ErrorBody("Server key not configured."))
        ELSE IF ~Truthy(SERVICE_ACCOUNT_KEY) \/ adminApps = 0
        THEN Respond(500, ErrorBody("Firebase Admin not configured on server."))
        ELSE [kind |-> "verify",
              idToken |-> JStr(SplitSecond(authHeader.s, Bearer))]

\* the authenticated handler, up to its first await
AuthGate(req) ==
    IF req.method # "POST"
    THEN Respond(405, ErrorBody("Method Not Allowed"))
    ELSE IF ~Truthy(GEMINI_API_KEY)
    THEN Respond(500, ErrorBody("Server key not configured."))
    ELSE IF ~Truthy(SERVICE_ACCOUNT_KEY) \/ adminApps = 0
    THEN Respond(500, ErrorBody("Firebase Admin not configured on server."))
    ELSE LET authHeader == Prop(req.headers, "authorization")
         IN  IF AuthHeaderInvalid(authHeader)
             THEN Respond(401, ErrorBody("Authorization header missing or invalid."))
             ELSE [kind |-> "verify",
                   idToken |-> JStr(SplitSecond(authHeader.s, Bearer))]

\* a slip: the result of the verification is not looked at
TokenCheckThrowOnly(outcome) ==
    IF outcome.throws
    THEN Respond(403, ErrorBody("Access denied: Token verification failed."))
    ELSE Pass

\* what follows await admin.auth().verifyIdToken(idToken)
TokenCheck(outcome) ==
    IF outcome.throws
    THEN Respond(403, ErrorBody("Access denied: Token verification failed."))
    ELSE IF ~Truthy(outcome.value) \/ Prop(outcome.value, "uid") = JNull
    THEN Respond(403, ErrorBody("Invalid or revoked user token."))
    ELSE Pass

\* a slip: the payload is validated before the token's verdict is looked at
AfterVerifyPayloadFirst(req, outcome) ==
    LET check == TokenCheck(outcome)
        next  == ProcessPayload(req, GEMINI_API_KEY)
    IN  IF next.kind = "respond" THEN next
        ELSE IF check.kind = "respond" THEN check
        ELSE next

\* a slip: the other module constant is taken for the API key
AfterVerifyOtherKey(req, outcome) ==
    LET check == TokenCheck(outcome)
    IN  IF check.kind = "respond" THEN check
        ELSE ProcessPayload(req, SERVICE_ACCOUNT_KEY)

\* the authenticated handler from the return of verifyIdToken on
AfterVerify(req, outcome) ==
    LET check == TokenCheck(outcome)
    IN  IF check.kind = "respond" THEN check
        ELSE ProcessPayload(req, GEMINI_API_KEY)

\* geminiResponse.ok
Ok(status) == status >= 200 /\ status <= 299

\* a slip: the loop does not stop at a response that is ok
BreakAtLastOnly(status, att) == att = maxRetries - 1

\* if (geminiResponse.ok || attempt === maxRetries - 1) break;
Break(status, att) == Ok(status) \/ att = maxRetries - 1

\* a slip: the delay does not grow
BackoffConstant(att) == delay

\* delay * Math.pow(2, attempt)
Backoff(att) == delay * Pow2(att)

\* a slip: the loop is not inside the try block
AfterFetchUncaught(outcome, att) ==
    IF outcome.throws
    THEN [kind |-> "throw"]
    ELSE IF Break(outcome.status, att)
    THEN [kind |-> "json"]
    ELSE [kind |-> "timer", ms |-> Backoff(att)]

\* what follows await fetch(...): the catch clause, the break, or the timer
AfterFetch(outcome, att) ==
    IF outcome.throws
    THEN Respond(500, ErrorBody("Internal server error during fetch."))
    ELSE IF Break(outcome.status, att)
    THEN [kind |-> "json"]
    ELSE [kind |-> "timer", ms |-> Backoff(att)]

\* a slip: the second part is read for the first
ExtractTextOfSecondPart(result) ==
    LET candidates == Prop(result, "candidates")
        first      == OptIndex(candidates, 0)
        content    == OptProp(first, "content")
        parts      == OptProp(content, "parts")
        part       == OptIndex(parts, 1)
    IN  OptProp(part, "text")

\* result.candidates?.[0]?.content?.parts?.[0]?.text, for a result that is
\* neither null nor undefined
ExtractText(result) ==
    LET candidates == Prop(result, "candidates")
        first      == OptIndex(candidates, 0)
        content    == OptProp(first, "content")
        parts      == OptProp(content, "parts")
        part       == OptIndex(parts, 0)
    IN  OptProp(part, "text")

\* a slip: a body that is no JSON is answered with the upstream's status
TranslateUnparsed(status, body) ==
    IF ParseThrows(body)
    THEN Respond(status, ErrorBody("AI Service Error"))
    ELSE LET result == JSONparse(body)
         IN  IF ~Ok(status)
             THEN Respond(status, JObj([error |-> Lit("AI Service Error"),
                                        details |-> result]))
             ELSE IF Nullish(result)
             THEN Respond(500, ErrorBody("Internal server error during fetch."))
             ELSE IF ~Truthy(ExtractText(result))
             THEN Respond(500, ErrorBody("AI response was empty."))
             ELSE Respond(200, JObj([text |-> ExtractText(result)]))

\* a slip: an upstream failure is answered 502, not the upstream's status
TranslateAs502(status, body) ==
    IF ParseThrows(body)
    THEN Respond(500, ErrorBody("Internal server error during fetch."))
    ELSE LET result == JSONparse(body)
         IN  IF ~Ok(status)
             THEN Respond(502, JObj([error |-> Lit("AI Service Error"),
                                     details |-> result]))
             ELSE IF Nullish(result)
             THEN Respond(500, ErrorBody("Internal server error during fetch."))
             ELSE IF ~Truthy(ExtractText(result))
             THEN Respond(500, ErrorBody("AI response was empty."))
             ELSE Respond(200, JObj([text |-> ExtractText(result)]))

\* what follows await geminiResponse.json()
Translate(status, body) ==
    IF ParseThrows(body)
    THEN Respond(500, ErrorBody("Internal server error during fetch."))
    ELSE LET result == JSONparse(body)
         IN  IF ~Ok(status)
             THEN Respond(status, JObj([error |-> Lit("AI Service Error"),
                                        details |-> result]))
             ELSE IF Nullish(result)
             THEN Respond(500, ErrorBody("Internal server error during fetch."))
             ELSE IF ~Truthy(ExtractText(result))
             THEN Respond(500, ErrorBody("AI response was empty."))
             ELSE Respond(200, JObj([text |-> ExtractText(result)]))

---------------------------------------------------------------------------
(* The actions.                                                            *)

\* the handler does o: it responds and returns, it suspends on a call, or
\* (o.kind = "throw") an exception leaves it and nothing is sent
Do(o) ==
    /\ pc' = IF o.kind \in {"respond", "throw"} THEN "done" ELSE o.kind
    /\ sent' = IF o.kind = "respond" THEN Append(sent, o.response) ELSE sent
    /\ verifyCalls' =
          IF o.kind = "verify" THEN Append(verifyCalls, o.idToken) ELSE verifyCalls
    /\ fetchCalls' =
          IF o.kind = "fetch"
          THEN Append(fetchCalls, FetchRequest(o.apiUrl, o.geminiPayload))
          ELSE fetchCalls
    /\ geminiPayload' = IF o.kind = "fetch" THEN o.geminiPayload ELSE geminiPayload
    /\ apiUrl' = IF o.kind = "fetch" THEN o.apiUrl ELSE apiUrl
    /\ waits' = IF o.kind = "timer" THEN Append(waits, o.ms) ELSE waits

\* a request arrives: the handler runs up to its first await
Receive(req) ==
    /\ pc = "idle"
    /\ request' = req
    /\ Do(IF variant = "open" THEN OpenGate(req) ELSE AuthGate(req))
    /\ UNCHANGED <<config, decodedToken, attempt, geminiResponse, verdicts, replies,
                   lastBody, peer>>

\* verifyIdToken settles
VerifyReturn(outcome) ==
    /\ pc = "verify"
    /\ verdicts' = Append(verdicts, outcome)
    /\ decodedToken' = IF outcome.throws THEN decodedToken ELSE outcome.value
    /\ Do(AfterVerify(request, outcome))
    /\ UNCHANGED <<config, request, attempt, geminiResponse, replies, lastBody, peer>>

\* fetch settles
FetchReturn(outcome) ==
    /\ pc = "fetch"
    /\ replies' = Append(replies, outcome)
    /\ geminiResponse' =
          IF outcome.throws THEN geminiResponse
          ELSE [t |-> "response", status |-> outcome.status]
    /\ Do(AfterFetch(outcome, attempt))
    /\ UNCHANGED <<config, request, decodedToken, attempt, verdicts, lastBody, peer>>

\* the backoff timer fires: attempt++, and the loop calls the upstream again
TimerFires ==
    /\ pc = "timer"
    /\ attempt' = attempt + 1
    /\ Do(IF attempt + 1 < maxRetries
          THEN [kind |-> "fetch", geminiPayload |-> geminiPayload, apiUrl |-> apiUrl]
          ELSE [kind |-> "json"])
    /\ UNCHANGED <<config, request, decodedToken, geminiResponse, verdicts, replies,
                   lastBody, peer>>

\* the body of the last response is read
JsonReturn(body) ==
    /\ pc = "json"
    /\ lastBody' = body
    /\ Do(Translate(geminiResponse.status, body))
    /\ UNCHANGED <<config, request, decodedToken, attempt, geminiResponse, verdicts,
                   replies, peer>>

\* the handler's promise resolves; its locals are gone
Complete ==
    /\ pc = "done"
    /\ pc' = "idle"
    /\ request' = Undefined
    /\ decodedToken' = Undefined
    /\ geminiPayload' = Undefined
    /\ apiUrl' = <<>>
    /\ attempt' = 0
    /\ geminiResponse' = NoResponse
    /\ sent' = <<>>
    /\ verifyCalls' = <<>>
    /\ verdicts' = <<>>
    /\ fetchCalls' = <<>>
    /\ replies' = <<>>
    /\ waits' = <<>>
    /\ lastBody' = Undefined
    /\ UNCHANGED <<config, peer>>

ReceiveAny      == \E req \in Requests : Receive(req)
VerifyReturnAny == \E outcome \in VerifyOutcomes : VerifyReturn(outcome)
FetchReturnAny  == \E outcome \in FetchOutcomes : FetchReturn(outcome)
JsonReturnAny   == \E body \in UpstreamBodies : JsonReturn(body)

Next ==
    \/ LoadModule
    \/ ReceiveAny
    \/ VerifyReturnAny
    \/ FetchReturnAny
    \/ TimerFires
    \/ JsonReturnAny
    \/ Complete

Spec == Init /\ [][Next]_vars

---------------------------------------------------------------------------
(* Two requests at the same time.  The second activation of the handler is *)
(* the record peer; its steps are the same segments of the same code, as   *)
(* functions of the activation.                                            *)

\* the activation h does o
Act(h, o) ==
    [h EXCEPT
        !.pc = IF o.kind \in {"respond", "throw"} THEN "done" ELSE o.kind,
        !.sent = IF o.kind = "respond" THEN Append(@, o.response) ELSE @,
        !.verifyCalls = IF o.kind = "verify" THEN Append(@, o.idToken) ELSE @,
        !.fetchCalls =
            IF o.kind = "fetch"
            THEN Append(@, FetchRequest(o.apiUrl, o.geminiPayload)) ELSE @,
        !.geminiPayload = IF o.kind = "fetch" THEN o.geminiPayload ELSE @,
        !.apiUrl = IF o.kind = "fetch" THEN o.apiUrl ELSE @,
        !.waits = IF o.kind = "timer" THEN Append(@, o.ms) ELSE @]

\* a slip: geminiResponse is declared in the module, so that an activation
\* reads what another one assigned
HeldByModule(own, other) == IF other # NoResponse THEN other ELSE own

\* the geminiResponse an activation reads: its own, the variable being
\* declared inside the handler
Held(own, other) == own

\* handler v starts on req and runs up to its first await
Started(v, req) ==
    Act([Fresh EXCEPT !.request = req],
        IF v = "open" THEN OpenGate(req) ELSE AuthGate(req))

AfterVerifyReturn(h, outcome) ==
    Act([h EXCEPT !.verdicts = Append(@, outcome),
                  !.decodedToken = IF outcome.throws THEN @ ELSE outcome.value],
        AfterVerify(h.request, outcome))

AfterFetchReturn(h, outcome) ==
    Act([h EXCEPT !.replies = Append(@, outcome),
                  !.geminiResponse =
                      IF outcome.throws THEN @
                      ELSE [t |-> "response", status |-> outcome.status]],
        AfterFetch(outcome, h.attempt))

AfterTimer(h) ==
    Act([h EXCEPT !.attempt = @ + 1],
        IF h.attempt + 1 < maxRetries
        THEN [kind |-> "fetch", geminiPayload |-> h.geminiPayload,
              apiUrl |-> h.apiUrl]
        ELSE [kind |-> "json"])

AfterJsonReturn(h, held, body) ==
    Act([h EXCEPT !.lastBody = body], Translate(held.status, body))

\* the inputs of the runs of two requests
ConcEnvs ==
    {e \in Envs : /\ e.GEMINI_API_KEY = JStr(<<"k">>)
                  /\ e.FIREBASE_SERVICE_ACCOUNT_KEY \in
                        {Undefined, JStr(<<"{", "sa", "}">>)}}

ConcRequests ==
    {[method |-> "GET", headers |-> EmptyObject, body |-> Undefined],
     [method |-> "POST", headers |-> JObj([authorization |-> JStr(Bearer \o <<"t">>)]),
      body |-> EmptyObject],
     [method |-> "POST", headers |-> JObj([authorization |-> JStr(Bearer \o <<"t">>)]),
      body |-> JObj([parts |-> JArr(<<PartAt(1)>>)])]}

ConcVerifyOutcomes ==
    {o \in VerifyOutcomes : o.throws \/ o.value = JObj([uid |-> JStr(<<"u">>)])}

ConcFetchOutcomes ==
    {o \in FetchOutcomes : o.throws \/ o.status \in {200, 400, 503}}

ConcBodies ==
    {Text(FALSE, Malformed), Text(FALSE, WithText(JStr(<<"h", "i">>))),
     Text(TRUE, JObj([error |-> JObj([code |-> JNum(429)])]))}

ConcInit == Init /\ env \in ConcEnvs

ConcReceive      == \E req \in ConcRequests : Receive(req)
ConcVerifyReturn == \E outcome \in ConcVerifyOutcomes : VerifyReturn(outcome)
ConcFetchReturn  == \E outcome \in ConcFetchOutcomes : FetchReturn(outcome)
ConcJsonReturn   == \E body \in ConcBodies : JsonReturn(body)

Others == <<config, pc, locals, record>>

PeerReceive ==
    /\ pc # "boot"
    /\ peer.pc = "idle"
    /\ \E req \in ConcRequests : peer' = Started(variant, req)
    /\ UNCHANGED Others

PeerVerifyReturn ==
    /\ peer.pc = "verify"
    /\ \E outcome \in ConcVerifyOutcomes : peer' = AfterVerifyReturn(peer, outcome)
    /\ UNCHANGED Others

PeerFetchReturn ==
    /\ peer.pc = "fetch"
    /\ \E outcome \in ConcFetchOutcomes : peer' = AfterFetchReturn(peer, outcome)
    /\ UNCHANGED Others

PeerTimerFires ==
    /\ peer.pc = "timer"
    /\ peer' = AfterTimer(peer)
    /\ UNCHANGED Others

PeerJsonReturn ==
    /\ peer.pc = "json"
    /\ \E body \in ConcBodies :
          peer' = AfterJsonReturn(peer, Held(peer.geminiResponse, geminiResponse), body)
    /\ UNCHANGED Others

PeerComplete ==
    /\ peer.pc = "done"
    /\ peer' = Fresh
    /\ UNCHANGED Others

ConcNext ==
    \/ LoadModule
    \/ ConcReceive
    \/ ConcVerifyReturn
    \/ ConcFetchReturn
    \/ TimerFires
    \/ ConcJsonReturn
    \/ Complete
    \/ PeerReceive
    \/ PeerVerifyReturn
    \/ PeerFetchReturn
    \/ PeerTimerFires
    \/ PeerJsonReturn
    \/ PeerComplete

ConcSpec == ConcInit /\ [][ConcNext]_vars

\* every awaited call settles and every timer fires
FairSpec ==
    /\ Spec
    /\ WF_vars(VerifyReturnAny)
    /\ WF_vars(FetchReturnAny)
    /\ WF_vars(TimerFires)
    /\ WF_vars(JsonReturnAny)

---------------------------------------------------------------------------
(* What the claims speak of.                                               *)

\* the caller has received exactly this: the status and the JSON document
Sends(status, doc) == sent = <<[status |-> status, body |-> Text(FALSE, doc)]>>

ErrorDoc(message) == JObj([error |-> JStr(<<message>>)])

Handling == request # Undefined

ApiKeyMissing == ~Truthy(env.GEMINI_API_KEY)

\* the identity service is set up: the credential bundle is there and the SDK
\* has an app
IdentityConfigured == Truthy(env.FIREBASE_SERVICE_ACCOUNT_KEY) /\ adminApps > 0

\* the request carries an Authorization header that starts with 'Bearer '
HasBearer ==
    /\ "authorization" \in DOMAIN request.headers.f
    /\ LET h == request.headers.f.authorization.s
       IN  Len(h) >= 7 /\ SubSeq(h, 1, 7) = Bearer

\* the verification of the token failed: it threw (invalid, expired), or it
\* gave no result or no subject id (revoked)
Rejecting(outcome) ==
    \/ outcome.throws
    \/ outcome.value = JNull
    \/ ("uid" \in DOMAIN outcome.value.f /\ outcome.value.f.uid = JNull)

VerifyFailed == verdicts # <<>> /\ Rejecting(verdicts[1])

\* the body of the request has a parts field that is an array
PartsIsArray ==
    /\ request.body.t = "object"
    /\ "parts" \in DOMAIN request.body.f
    /\ request.body.f.parts.t = "array"

\* the request is past the method check, the configuration check and, in the
\* authenticated handler, the verification of its token
PastTheGate ==
    /\ Handling
    /\ request.method = "POST"
    /\ ~ApiKeyMissing
    /\ variant = "authenticated" =>
          IdentityConfigured /\ verdicts # <<>> /\ ~VerifyFailed

---------------------------------------------------------------------------
\* C1: a request whose method is not POST is answered 405
\* {"error":"Method Not Allowed"} by both handlers, whatever the
\* configuration, its headers and its body are, and neither the identity
\* service nor the upstream is called for it.
C1_NonPostIs405 ==
    (Handling /\ request.method # "POST") =>
        /\ pc = "done"
        /\ Sends(405, ErrorDoc("Method Not Allowed"))
        /\ verifyCalls = <<>>
        /\ fetchCalls = <<>>

C1_Witness ==
    /\ Handling
    /\ request.method = "DELETE"
    /\ ApiKeyMissing
    /\ HasBearer
    /\ PartsIsArray
    /\ sent # <<>>

\* C2, as stated: with the server API key missing every request is answered
\* 500, whatever its method, headers and body are.
C2_MissingKeyIs500 ==
    (Handling /\ ApiKeyMissing) => (sent # <<>> /\ sent[1].status = 500)

\* C2, amended: with the server API key missing every POST request is
\* answered 500, whatever its headers and body and the rest of the
\* configuration are (a request of another method is answered 405 first).
C2_PostMissingKeyIs500 ==
    (Handling /\ ApiKeyMissing /\ request.method = "POST") =>
        (pc = "done" /\ Len(sent) = 1 /\ sent[1].status = 500)

C2_Witness ==
    /\ Handling
    /\ ApiKeyMissing
    /\ request.method = "POST"
    /\ variant = "authenticated"
    /\ ~IdentityConfigured
    /\ ~HasBearer
    /\ ~PartsIsArray
    /\ sent # <<>>

\* C3: in the authenticated handler the caller cannot tell a token whose
\* verification threw (invalid, expired) from one whose verification gave no
\* result or no subject id (revoked): the response sent after a failed
\* verification, status and body, is the one any other failed verification
\* would have got, 403 with the same body.
C3_DenialsIndistinguishable ==
    (variant = "authenticated" /\ VerifyFailed) =>
        \A other \in {o \in VerifyOutcomes : Rejecting(o)} :
            /\ Len(sent) = 1
            /\ sent[1].status = 403
            /\ sent[1] = TokenCheck(other).response

\* the last outbound call got a response of this status
UpstreamSaid(status) ==
    /\ replies # <<>>
    /\ ~replies[Len(replies)].throws
    /\ replies[Len(replies)].status = status

\* C4, as stated: in the authenticated handler, for a POST request on a configured
\* server: an Authorization header that is absent or does not start with
\* 'Bearer ' is answered 401 {"error":"Authorization header missing or
\* invalid."} and the identity service is not called; a header that starts
\* with 'Bearer ' is never answered 401.
C4_Header401 ==
    (/\ variant = "authenticated"
     /\ Handling
     /\ request.method = "POST"
     /\ ~ApiKeyMissing
     /\ IdentityConfigured) =>
        IF HasBearer
        THEN \A i \in 1..Len(sent) : sent[i].status # 401
        ELSE /\ pc = "done"
             /\ Sends(401, ErrorDoc("Authorization header missing or invalid."))
             /\ verifyCalls = <<>>

\* C4, amended: as stated, but for the header that starts with 'Bearer ':
\* the identity service is called with its token, the handler never answers
\* it with "Authorization header missing or invalid.", and it is answered
\* 401 only when the upstream's last response was a 401, which is passed on.
C4_Header401Own ==
    (/\ variant = "authenticated"
     /\ Handling
     /\ request.method = "POST"
     /\ ~ApiKeyMissing
     /\ IdentityConfigured) =>
        IF HasBearer
        THEN /\ Len(verifyCalls) = 1
             /\ \A i \in 1..Len(sent) :
                    /\ sent[i].body.doc # ErrorDoc("Authorization header missing or invalid.")
                    /\ sent[i].status = 401 => UpstreamSaid(401)
        ELSE /\ pc = "done"
             /\ Sends(401, ErrorDoc("Authorization header missing or invalid."))
             /\ verifyCalls = <<>>

C4_Witness ==
    /\ variant = "authenticated"
    /\ Handling
    /\ request.method = "POST"
    /\ IdentityConfigured
    /\ "authorization" \in DOMAIN request.headers.f
    /\ Truthy(request.headers.f.authorization)
    /\ ~HasBearer
    /\ sent # <<>>
    /\ sent[1].status = 401

\* C5, as stated: a POST request that is past the configuration check (and, in the
\* authenticated handler, the verification of its token) whose body has no
\* parts field, or one that is no array, or no body at all, is answered 400
\* {"error":"Missing content parts."} and the upstream is not called; one
\* whose parts is an array is never answered 400.
C5_Parts400 ==
    PastTheGate =>
        IF PartsIsArray
        THEN \A i \in 1..Len(sent) : sent[i].status # 400
        ELSE /\ pc = "done"
             /\ Sends(400, ErrorDoc("Missing content parts."))
             /\ fetchCalls = <<>>

\* C5, amended: as stated, but for the parts that is an array: the request
\* goes on to the upstream, the handler never answers it with "Missing
\* content parts.", and it is answered 400 only when the upstream's last
\* response was a 400, which is passed on.
C5_Parts400Own ==
    PastTheGate =>
        IF PartsIsArray
        THEN /\ fetchCalls # <<>>
             /\ \A i \in 1..Len(sent) :
                    /\ sent[i].body.doc # ErrorDoc("Missing content parts.")
                    /\ sent[i].status = 400 => UpstreamSaid(400)
        ELSE /\ pc = "done"
             /\ Sends(400, ErrorDoc("Missing content parts."))
             /\ fetchCalls = <<>>

C5_Witness ==
    /\ PastTheGate
    /\ variant = "authenticated"
    /\ request.body.t = "object"
    /\ "parts" \in DOMAIN request.body.f
    /\ request.body.f.parts.t = "string"
    /\ sent # <<>>
    /\ sent[1].status = 400

---------------------------------------------------------------------------
LastReply == replies[Len(replies)]

TwoXX(status) == status \in 200..299

\* the request is answered and its last outbound call got a response
AnsweredAfterResponse == pc = "done" /\ replies # <<>> /\ ~LastReply.throws

ServiceErrorDoc(details) ==
    JObj([error |-> JStr(<<"AI Service Error">>), details |-> details])

\* C6, as stated: when the last outbound call of a request got a response
\* that is not 2xx, the caller receives that response's status with the body
\* {"error":"AI Service Error","details":<that response's body>}, for every
\* upstream status and every upstream body.
C6_LastFailurePassedOn ==
    (AnsweredAfterResponse /\ ~TwoXX(LastReply.status)) =>
        Sends(LastReply.status, ServiceErrorDoc(lastBody.doc))

\* C6, amended: that holds when the body of that response is JSON, details
\* being the value the body denotes; a body that is no JSON is answered 500
\* {"error":"Internal server error during fetch."}, whatever the upstream's
\* status was.
C6_LastJsonFailurePassedOn ==
    (AnsweredAfterResponse /\ ~TwoXX(LastReply.status)) =>
        IF lastBody.doc # Malformed
        THEN Sends(LastReply.status, ServiceErrorDoc(lastBody.doc))
        ELSE Sends(500, ErrorDoc("Internal server error during fetch."))

C6_Witness ==
    /\ AnsweredAfterResponse
    /\ Len(replies) = maxRetries
    /\ LastReply.status = 503
    /\ replies[1].status = 401
    /\ lastBody.ws
    /\ sent # <<>>
    /\ sent[1].status = 503

\* v has a property k / an element i, and what it is
Member(v, k)    == v.t = "object" /\ k \in DOMAIN v.f
Element(v, i)   ==
    \/ v.t = "array" /\ Len(v.a) > i
    \/ v.t = "string" /\ Len(v.s) > i
    \/ Member(v, IndexKey(i))
ElementAt(v, i) ==
    CASE v.t = "array"  -> v.a[i + 1]
      [] v.t = "string" -> JStr(<<v.s[i + 1]>>)
      [] OTHER          -> v.f[IndexKey(i)]

\* the document has something at candidates[0].content.parts[0].text
HasTextPath(doc) ==
    /\ Member(doc, "candidates")
    /\ Element(doc.f.candidates, 0)
    /\ LET first == ElementAt(doc.f.candidates, 0)
       IN  /\ Member(first, "content")
           /\ Member(first.f.content, "parts")
           /\ Element(first.f.content.f.parts, 0)
           /\ Member(ElementAt(first.f.content.f.parts, 0), "text")

TextAt(doc) ==
    ElementAt(ElementAt(doc.f.candidates, 0).f.content.f.parts, 0).f.text

\* null, "", 0, false
Empty(v) == v \in {JNull, JStr(<<>>), JNum(0), JBool(FALSE)}

\* C7, as stated: when the last response is 2xx with a JSON body, the
\* caller receives 500 {"error":"AI response was empty."} exactly when a
\* segment of candidates[0].content.parts[0].text is absent from the body,
\* and 200 {"text": t}, t being the value at that path, otherwise.
C7_EmptyIffPathAbsent ==
    (AnsweredAfterResponse /\ TwoXX(LastReply.status) /\ lastBody.doc # Malformed) =>
        IF HasTextPath(lastBody.doc)
        THEN Sends(200, JObj([text |-> TextAt(lastBody.doc)]))
        ELSE Sends(500, ErrorDoc("AI response was empty."))

\* C7, amended: the caller receives 500 {"error":"AI response was empty."}
\* exactly when the body is not the document null and a segment of the path
\* is absent or the value at the path is empty (null, "", 0, false); 200
\* {"text": t} when the value t at the path is not empty; and 500
\* {"error":"Internal server error during fetch."} when the body is the
\* document null.
C7_EmptyIffNoText ==
    (AnsweredAfterResponse /\ TwoXX(LastReply.status) /\ lastBody.doc # Malformed) =>
        IF lastBody.doc = JNull
        THEN Sends(500, ErrorDoc("Internal server error during fetch."))
        ELSE IF HasTextPath(lastBody.doc) /\ ~Empty(TextAt(lastBody.doc))
        THEN Sends(200, JObj([text |-> TextAt(lastBody.doc)]))
        ELSE Sends(500, ErrorDoc("AI response was empty."))

C7_Witness ==
    /\ AnsweredAfterResponse
    /\ LastReply.status = 201
    /\ lastBody.doc # Malformed
    /\ HasTextPath(lastBody.doc)
    /\ TextAt(lastBody.doc) = JStr(<<"h", "i">>)
    /\ sent # <<>>
    /\ sent[1].status = 200

\* C8: a request that reaches the upstream stage makes between 1 and 3
\* outbound calls, one after the other (at most one is in flight); every
\* call but the last got a response that is not 2xx (no call follows a 2xx,
\* and none follows a call that threw); and the calls end only with a 2xx
\* response, a call that threw, or the third call.
C8_AttemptsBounded ==
    /\ Len(fetchCalls) <= 3
    /\ geminiPayload # Undefined => Len(fetchCalls) >= 1
    /\ Len(fetchCalls) - Len(replies) \in {0, 1}
    /\ (Len(fetchCalls) - Len(replies) = 1) <=> (pc = "fetch")
    /\ \A i \in 1..(Len(fetchCalls) - 1) :
          ~replies[i].throws /\ ~TwoXX(replies[i].status)
    /\ (pc \in {"json", "done"} /\ fetchCalls # <<>>) =>
          \/ LastReply.throws
          \/ TwoXX(LastReply.status)
          \/ Len(fetchCalls) = 3

C8_Witness ==
    /\ pc = "done"
    /\ Len(fetchCalls) = 2
    /\ ~replies[1].throws
    /\ replies[1].status = 503
    /\ TwoXX(replies[2].status)

\* C9: a call that throws (a connection error) is retried like a failed
\* attempt: the request is answered 500 {"error":"Internal server error
\* during fetch."} for it only once 3 calls have been made.
C9_ThrowRetried ==
    (pc = "done" /\ replies # <<>> /\ LastReply.throws) => Len(fetchCalls) = 3

\* C10: every request reaches the sending of its response exactly once, on
\* every path: if every awaited call settles and every timer fires, the
\* handler ends, and it ends exactly when it has emitted its one response,
\* which has an HTTP status and a JSON body (so no exception leaves the
\* handler); no call to the identity service or to the upstream is made once
\* the response is emitted.
C10_RespondsExactlyOnce ==
    /\ [](Len(sent) <= 1)
    /\ [](pc = "done" <=> Len(sent) = 1)
    /\ [](\A i \in 1..Len(sent) :
            sent[i].status \in 100..599 /\ sent[i].body.doc # Malformed)
    /\ [][sent # <<>> => /\ Len(verifyCalls') <= Len(verifyCalls)
                         /\ Len(fetchCalls') <= Len(fetchCalls)]_vars
    /\ (Handling ~> (pc = "done" /\ Len(sent) = 1))

C10_Witness ==
    /\ pc = "done"
    /\ Len(sent) = 1
    /\ variant = "authenticated"
    /\ Len(verdicts) = 1
    /\ Len(replies) = 2
    /\ replies[2].throws

---------------------------------------------------------------------------
\* the authenticated handler's module has run with a credential bundle that
\* is absent (unset, empty), does not parse, or is refused by the SDK
Degraded ==
    /\ variant = "authenticated"
    /\ pc # "boot"
    /\ env.FIREBASE_SERVICE_ACCOUNT_KEY \in
          {Undefined, JStr(<<>>), JStr(<<"x">>), JStr(<<"{", "}">>)}

\* C11: in the authenticated handler, when the credential bundle was absent
\* or failed to parse or to initialize at process start, every POST request
\* that arrives with the API key configured is answered 500
\* {"error":"Firebase Admin not configured on server."}, whatever its
\* Authorization header and body are, with no call to the identity service
\* or to the upstream; and no step of the process changes its configuration
\* or ends the degraded mode.
C11_DegradedForGood ==
    /\ []((Degraded /\ Handling /\ request.method = "POST" /\ ~ApiKeyMissing) =>
            /\ pc = "done"
            /\ Sends(500, ErrorDoc("Firebase Admin not configured on server."))
            /\ verifyCalls = <<>>
            /\ fetchCalls = <<>>)
    /\ [][Degraded => (Degraded' /\ config' = config)]_vars

C11_Witness ==
    /\ Degraded
    /\ env.FIREBASE_SERVICE_ACCOUNT_KEY = JStr(<<"{", "}">>)
    /\ Handling
    /\ request.method = "POST"
    /\ ~ApiKeyMissing
    /\ HasBearer
    /\ PartsIsArray
    /\ sent # <<>>

\* an exception was raised in the upstream call path: the call threw, the
\* body of the response is no JSON, or the body of an ok response is null
\* (reading result.candidates throws)
UpstreamPathThrew ==
    /\ pc = "done"
    /\ replies # <<>>
    /\ \/ LastReply.throws
       \/ /\ lastBody # Undefined
          /\ \/ lastBody.doc = Malformed
             \/ TwoXX(LastReply.status) /\ lastBody.doc = JNull

\* C12: an exception raised in the upstream call path of a request (the
\* outbound call throwing, or the body of the response failing to parse as
\* JSON, whatever the upstream's status was) is answered 500
\* {"error":"Internal server error during fetch."}.
C12_ExceptionIs500 ==
    UpstreamPathThrew => Sends(500, ErrorDoc("Internal server error during fetch."))

C12_Witness ==
    /\ UpstreamPathThrew
    /\ ~LastReply.throws
    /\ LastReply.status = 401
    /\ lastBody.doc = Malformed
    /\ sent # <<>>

\* C13: the only timers of a request are the backoff waits between two
\* outbound calls: the wait after the call of index i (0, 1) is 1000 * 2^i,
\* there is none before the first call, after a 2xx or a throw, or after the
\* third call; a request whose first two calls got a response that is not
\* 2xx and whose third got a 2xx has waited 1000 + 2000 = 3000 and is
\* answered from the third response.
C13_BackoffWaits ==
    /\ waits \in {<<>>, <<1000>>, <<1000, 2000>>}
    /\ Len(waits) = IF pc = "timer" THEN Len(fetchCalls)
                    ELSE IF fetchCalls = <<>> THEN 0
                    ELSE Len(fetchCalls) - 1
    /\ pc = "timer" =>
          /\ Len(replies) = Len(fetchCalls)
          /\ Len(replies) < 3
          /\ ~LastReply.throws
          /\ ~TwoXX(LastReply.status)
    /\ (pc = "done" /\ Len(replies) = 3 /\ ~LastReply.throws
            /\ TwoXX(LastReply.status)) =>
          /\ waits = <<1000, 2000>>
          /\ waits[1] + waits[2] = 3000
          /\ sent = <<Translate(replies[3].status, lastBody).response>>

C13_Witness ==
    /\ pc = "done"
    /\ Len(replies) = 3
    /\ ~LastReply.throws
    /\ LastReply.status = 200
    /\ replies[1].status = 503
    /\ replies[2].status = 400
    /\ waits = <<1000, 2000>>
    /\ sent # <<>>
    /\ sent[1].status = 200

\* C14: the upstream is called for a request only after every earlier stage
\* has passed for it: its method is POST, the API key is there, its parts is
\* an array and, in the authenticated handler, the identity service is
\* configured and the verification of its token has returned a result whose
\* subject id is not null.  The identity service is called at most once for
\* a request.
C14_UpstreamOnlyPastTheGate ==
    /\ Len(verifyCalls) <= 1
    /\ Len(verdicts) <= Len(verifyCalls)
    /\ fetchCalls # <<>> =>
          /\ Handling
          /\ request.method = "POST"
          /\ ~ApiKeyMissing
          /\ PartsIsArray
          /\ variant = "authenticated" =>
                /\ IdentityConfigured
                /\ Len(verifyCalls) = 1
                /\ Len(verdicts) = 1
                /\ ~Rejecting(verdicts[1])

C14_Witness ==
    /\ variant = "authenticated"
    /\ Len(fetchCalls) = 3
    /\ Len(verdicts) = 1
    /\ verdicts[1].value = JObj([uid |-> JStr(<<"u">>)])
    /\ pc = "done"

\* the error documents of the stages before the upstream
GateDocs ==
    {ErrorDoc("Method Not Allowed"), ErrorDoc("Server key not configured."),
     ErrorDoc("Firebase Admin not configured on server."),
     ErrorDoc("Authorization header missing or invalid."),
     ErrorDoc("Access denied: Token verification failed."),
     ErrorDoc("Invalid or revoked user token."),
     ErrorDoc("Missing content parts.")}

\* C15: a request is answered by the first stage that fails for it, in the
\* order method (405), API key (500), identity service configuration (500),
\* Authorization header (401), token verification (403), payload (400),
\* upstream: a request with an invalid token and a malformed payload is
\* answered 403 and not 400, one without Authorization header on a server
\* whose identity service is not configured 500 and not 401.
C15_FirstFailingStage ==
    Handling =>
        IF request.method # "POST"
        THEN Sends(405, ErrorDoc("Method Not Allowed"))
        ELSE IF ApiKeyMissing
        THEN Sends(500, ErrorDoc("Server key not configured."))
        ELSE IF variant = "authenticated" /\ ~IdentityConfigured
        THEN Sends(500, ErrorDoc("Firebase Admin not configured on server."))
        ELSE IF variant = "authenticated" /\ ~HasBearer
        THEN Sends(401, ErrorDoc("Authorization header missing or invalid."))
        ELSE IF variant = "authenticated" /\ verdicts = <<>>
        THEN pc = "verify" /\ sent = <<>> /\ fetchCalls = <<>>
        ELSE IF variant = "authenticated" /\ VerifyFailed
        THEN Len(sent) = 1 /\ sent[1].status = 403 /\ fetchCalls = <<>>
        ELSE IF ~PartsIsArray
        THEN Sends(400, ErrorDoc("Missing content parts."))
        ELSE /\ fetchCalls # <<>>
             /\ \A i \in 1..Len(sent) : sent[i].body.doc \notin GateDocs

C15_Witness ==
    /\ variant = "authenticated"
    /\ Handling
    /\ VerifyFailed
    /\ verdicts[1].throws
    /\ ~PartsIsArray
    /\ sent # <<>>
    /\ sent[1].status = 403

\* C17: the body sent to the upstream is a function of the validated
\* payload: its contents is one element, of role "user", whose parts are the
\* parts of the request, the same elements in the same order; the text of
\* its systemInstruction.parts[0] is the systemInstruction of the request
\* (and is absent when that is); and every attempt of a request sends the
\* URL and the body of the first one.
C17_UpstreamBody ==
    \A i \in 1..Len(fetchCalls) :
        /\ fetchCalls[i] = fetchCalls[1]
        /\ fetchCalls[i].url =
              <<API_URL_BASE, "/", GEMINI_MODEL, ":generateContent?key=">>
                  \o env.GEMINI_API_KEY.s
        /\ ~fetchCalls[i].body.ws
        /\ LET doc == fetchCalls[i].body.doc
           IN  /\ DOMAIN doc.f = {"contents", "systemInstruction"}
               /\ doc.f.contents =
                     JArr(<<JObj([role |-> JStr(<<"user">>),
                                  parts |-> request.body.f.parts])>>)
               /\ doc.f.systemInstruction =
                     JObj([parts |-> JArr(<<
                        IF "systemInstruction" \in DOMAIN request.body.f
                        THEN JObj([text |-> request.body.f.systemInstruction])
                        ELSE EmptyObject>>)])

C17_Witness ==
    /\ Len(fetchCalls) = 3
    /\ Len(request.body.f.parts.a) = 2
    /\ request.body.f.parts.a[1] # request.body.f.parts.a[2]
    /\ "systemInstruction" \in DOMAIN request.body.f

---------------------------------------------------------------------------
\* the first activation, as a record
Self ==
    [pc |-> pc, request |-> request, decodedToken |-> decodedToken,
     geminiPayload |-> geminiPayload, apiUrl |-> apiUrl, attempt |-> attempt,
     geminiResponse |-> geminiResponse, sent |-> sent,
     verifyCalls |-> verifyCalls, verdicts |-> verdicts,
     fetchCalls |-> fetchCalls, replies |-> replies, waits |-> waits,
     lastBody |-> lastBody]

\* the activation h run on alone, fed the verdicts vs, the replies rs and
\* the body text, as far as these go
RECURSIVE Drive(_, _, _, _)
Drive(h, vs, rs, body) ==
    CASE h.pc = "verify" /\ Len(h.verdicts) < Len(vs) ->
            Drive(AfterVerifyReturn(h, vs[Len(h.verdicts) + 1]), vs, rs, body)
      [] h.pc = "fetch" /\ Len(h.replies) < Len(rs) ->
            Drive(AfterFetchReturn(h, rs[Len(h.replies) + 1]), vs, rs, body)
      [] h.pc = "timer" ->
            Drive(AfterTimer(h), vs, rs, body)
      [] h.pc = "json" /\ body # Undefined ->
            AfterJsonReturn(h, h.geminiResponse, body)
      [] OTHER -> h

\* what handler v, alone in the process, makes of the request req when its
\* calls are answered by vs, rs and body
Alone(v, req, vs, rs, body) == Drive(Started(v, req), vs, rs, body)

\* C16: with two requests handled at the same time, in any interleaving of
\* their awaits, the response of each, its calls to the identity service
\* and to the upstream and its waits are those of the same request handled
\* alone with the same replies to its calls; a step of one request leaves
\* the state of the other as it is; and handling requests never changes the
\* configuration of the process.
C16_RequestsIndependent ==
    /\ [](pc = "done" =>
            Self = Alone(variant, request, verdicts, replies, lastBody))
    /\ [](peer.pc = "done" =>
            peer = Alone(variant, peer.request, peer.verdicts, peer.replies,
                         peer.lastBody))
    /\ [][Self' = Self \/ peer' = peer]_vars
    /\ [][pc # "boot" => config' = config]_vars

C16_Witness ==
    /\ pc = "done"
    /\ peer.pc = "done"
    /\ request = peer.request
    /\ Len(replies) = 3
    /\ Len(peer.replies) = 2
    /\ sent # <<>>
    /\ peer.sent # <<>>
    /\ sent[1].status = 503
    /\ peer.sent[1].status = 200

\* C18: the two handlers differ in the authentication gate only: a request
\* handled by the authenticated handler, with the identity service
\* configured and a token that verifies with a subject id that is not null,
\* gets the response, makes the upstream calls and waits the waits that the
\* open handler gives to a request of the same method and body with the same
\* API key and the same upstream replies.
C18_VariantsAgree ==
    (/\ variant = "authenticated"
     /\ pc = "done"
     /\ IdentityConfigured
     /\ HasBearer
     /\ verdicts # <<>> => ~Rejecting(verdicts[1])) =>
        LET open == Alone("open", request, <<>>, replies, lastBody)
        IN  /\ sent = open.sent
            /\ fetchCalls = open.fetchCalls
            /\ waits = open.waits
            /\ open.pc = "done"

C18_Witness ==
    /\ variant = "authenticated"
    /\ pc = "done"
    /\ IdentityConfigured
    /\ HasBearer
    /\ Len(verdicts) = 1
    /\ ~Rejecting(verdicts[1])
    /\ Len(fetchCalls) = 3
    /\ waits = <<1000, 2000>>
    /\ UpstreamSaid(201)
    /\ sent # <<>>
    /\ sent[1].status = 200

=============================================================================
